---- MODULE Spec2Model ----
(***************************************************************************)
(* WellWork offline sync: the client's localStorage cache and sync queue   *)
(* (frontend/src/offlineStorage.js), the App component's health-monitoring *)
(* effect and session handling (frontend/src/App.jsx), the Notes           *)
(* component's save/delete handlers and the server's notes endpoints.      *)
(*                                                                         *)
(* The browser is single-threaded: every action below is one synchronous   *)
(* run of a handler or of the continuation of an await.  An async function *)
(* that is suspended at an await is a record in the bag `tasks`.           *)
(***************************************************************************)
EXTENDS Integers, Sequences, FiniteSets, Bags, TLC

\* ---------------------------------------------------------------- bounds
\* async functions suspended at an await at the same time
MaxTasks == 2
\* offline-path runs of handleSave/handleDelete (each reads Date.now() once)
MaxOps == 2
\* ids the server's randomUUID() hands out
MaxIds == 2
\* failed replays counted per run in SpecRetry
MaxFails == 7
\* notes of a list handed to notesStorage.save in SpecStore
MaxNotes == 2
\* operations in the text of the sync queue in SpecStore
MaxQueue == 2
\* requests the server is handling at the same time in SpecServer
MaxHandlers == 2

\* ---------------------------------------------------- program constants
\* `operation.retries > 5`
MaxRetries == 5

\* ------------------------------------------------------------ value sets
Users == {"u1"}
Dates == {"d1"}
Contents == {"x"}
NoUser == "none"
NoDate == "none"
\* no content: a blank textarea (`content.trim()` is ''), a request without body
NoContent == "none"
\* what `content.trim()` can be when Save is clicked
Typed == Contents \cup {NoContent}
\* currentNoteId === null
NoId == 0

\* A server id is a positive number; `temp_${Date.now()}` is the negated clock.
TempIdPlain(t) == t
TempId(t) == 0 - t
\* currentNoteId.startsWith('temp_')
IsTemp(id) == id < 0

\* What the network does with one request: the server handles it and its
\* answer arrives ("deliver"); a non-success answer arrives without the
\* handler having changed anything, e.g. 401/403 from authenticateToken or a
\* 500 ("reject"); fetch throws ("err").
NetOutcomes == {"deliver", "reject", "err"}

VARIABLES
  session,          \* App state `session`: the logged-in user or NoUser
  storedSession,    \* localStorage wellwork_session
  serverStatus,     \* App state `serverStatus`
  isOfflineMode,    \* App state `isOfflineMode`
  notes,            \* App state `notes`
  selectedDate,     \* App state `selectedDate`
  currentNoteId,    \* Notes state `currentNoteId`
  wasOffline,       \* `let wasOffline` of the live health effect
  tasks,            \* bag of suspended async functions
  syncQ,            \* localStorage wellwork_sync_queue
  cache,            \* localStorage wellwork_notes_{userId}
  srvNotes,         \* the server's notes.json
  srvNextId,        \* next id randomUUID() returns
  now,              \* Date.now(), ticking once per offline-path run
  acked,            \* history: timestamps of operations whose replay got response.ok;
                    \* (SpecServer) ids of the notes a POST was answered 201 for and
                    \* no DELETE was answered 200 for since
  failedSincePass,  \* history: a health probe failed since the last pass was started
  cancelBefore,     \* history: serverStatus before the start of the last check that
                    \* settled cancelled, "none" while no cancelled check has settled
  failCount,        \* history (SpecRetry): failed replays of the scenario's operation
  lastEvent,        \* history: <<handler, outcome>> of the step just taken, for the
                    \* steps of save, delete and (SpecReject, SpecLive) the requests
                    \* that settle; (SpecOffline) the user's last action
  ls,               \* (SpecStore) localStorage: key -> text
  call,             \* (SpecStore) the last call of a storage function and its result;
                    \* (SpecRequests) the last request, its response, the request before
  handlers          \* (SpecServer) bag of request handlers suspended at an await

vars == <<session, storedSession, serverStatus, isOfflineMode, notes, selectedDate,
          currentNoteId, wasOffline, tasks, syncQ, cache, srvNotes, srvNextId, now,
          acked, failedSincePass, cancelBefore, failCount, lastEvent,
          ls, call, handlers>>

appVars == <<session, storedSession, selectedDate, currentNoteId>>
\* the variables of the application and the server
clientVars == <<session, storedSession, serverStatus, isOfflineMode, notes, selectedDate,
                currentNoteId, wasOffline, tasks, syncQ, cache, now,
                acked, failedSincePass, cancelBefore, failCount, lastEvent>>
srvVars == <<srvNotes, srvNextId>>

\* no storage function was called yet
NoCall ==
  [fn |-> "none", user |-> <<>>, arg |-> [t |-> "null", v |-> <<>>],
   ret |-> [t |-> "null", v |-> <<>>]]
\* an empty localStorage
NoStorage == [k \in {} |-> <<>>]

\* ----------------------------------------------------------------- tasks
NoTask ==
  [pc |-> "idle", aborted |-> FALSE, stale |-> FALSE, user |-> NoUser,
   q |-> <<>>, k |-> 0, sent |-> <<>>, nfail |-> 0,
   date |-> NoDate, content |-> NoContent, nid |-> NoId, before |-> "none"]

TaskSet == BagToSet(tasks)
NumTasks == BagCardinality(tasks)
One(t) == SetToBag({t})
Replace(t, t2) == (tasks (-) One(t)) (+) One(t2)
Drop(t) == tasks (-) One(t)

\* A reconciliation pass is a checkHealth run inside retryFailedRequests
\* ("drain") or awaiting the notes refresh that follows it ("fetch").
InPass(t) == t.pc \in {"drain", "fetch"}
PassBag(T) == [t \in {x \in BagToSet(T) : InPass(x)} |-> CopiesIn(t, T)]
NumPasses(T) == BagCardinality(PassBag(T))

\* ------------------------------------------------------------ sync queue
\* queue.splice(index, 1): nothing happens at an index past the end
SpliceOffByOne(q, i) ==
  IF i + 1 < Len(q) THEN SubSeq(q, 1, i + 1) \o SubSeq(q, i + 3, Len(q)) ELSE q
Splice(q, i) ==
  IF i < Len(q) THEN SubSeq(q, 1, i) \o SubSeq(q, i + 2, Len(q)) ELSE q

\* syncQueue.remove(index): getAll, splice, setItem
QueueRemove(q, i) == Splice(q, i)

\* syncQueue.add(operation): getAll, push {...operation, timestamp, retries: 0}, setItem
QueueAdd(q, op, t) == Append(q, [op EXCEPT !.ts = t, !.retries = 0])

PostOp(d, c) ==
  [method |-> "POST", date |-> d, content |-> c, nid |-> NoId, ts |-> 0, retries |-> 0]
DeleteOp(id) ==
  [method |-> "DELETE", date |-> NoDate, content |-> NoContent, nid |-> id,
   ts |-> 0, retries |-> 0]

TsOf(q) == {q[j].ts : j \in 1..Len(q)}

\* `for (let i = queue.length - 1; i >= 0; i--)`: the indices in visiting order
ReplayOrder(q) == [j \in 1..Len(q) |-> Len(q) - j]

\* the index `i` and the `operation` a draining task is awaiting the answer for
CurIndex(t) == ReplayOrder(t.q)[t.k]
CurOp(t) == t.q[CurIndex(t) + 1]

\* ---------------------------------------------------------------- server
UserNotes(S, u) == {n \in S : n.user = u}
HasNoteFor(S, u, d) == \E n \in S : n.user = u /\ n.date = d

\* POST /api/notes: 400 without content; else update the note of (user, date)
\* or push a new one
\* `content.trim()` on the server: the application sends trimmed content, a
\* request made directly may carry blanks around it or nothing but blanks
Padded == " x "
Blanks == "  "
Trim(c) == IF c = Padded THEN "x" ELSE IF c = Blanks THEN NoContent ELSE c
PostValid(d, c) == d # NoDate /\ c # NoContent /\ Trim(c) # NoContent
PostCreates(S, u, d) == ~HasNoteFor(S, u, d)
SrvPostAlwaysPush(S, id, u, d, c) ==
  S \cup {[id |-> id, user |-> u, date |-> d, content |-> Trim(c)]}
SrvPost(S, id, u, d, c) ==
  IF HasNoteFor(S, u, d)
    THEN {IF n.user = u /\ n.date = d THEN [n EXCEPT !.content = Trim(c)] ELSE n : n \in S}
    ELSE S \cup {[id |-> id, user |-> u, date |-> d, content |-> Trim(c)]}

\* DELETE /api/notes/:id: 404 when the filter removed nothing
SrvDeleteAnyOwner(S, u, id) == {n \in S : ~(n.id = id)}
SrvDelete(S, u, id) == {n \in S : ~(n.id = id /\ n.user = u)}
DeleteFound(S, u, id) == SrvDelete(S, u, id) # S

\* response.ok of a request the server handled
SrvOk(S, u, op) ==
  IF op.method = "POST" THEN PostValid(op.date, op.content)
  ELSE DeleteFound(S, u, op.nid)

\* the server's notes after it handled the request
SrvApply(S, id, u, op) ==
  IF ~SrvOk(S, u, op) THEN S
  ELSE IF op.method = "POST" THEN SrvPost(S, id, u, op.date, op.content)
  ELSE SrvDelete(S, u, op.nid)

\* the request makes the server call randomUUID()
SrvUsesId(S, u, op) ==
  op.method = "POST" /\ PostValid(op.date, op.content) /\ PostCreates(S, u, op.date)

\* The network's part of one request: the server state after it, and whether
\* the client sees response.ok.
CanSettle(net, u, op) ==
  net = "deliver" /\ SrvUsesId(srvNotes, u, op) => srvNextId <= MaxIds
RespOk(net, u, op) == net = "deliver" /\ SrvOk(srvNotes, u, op)
\* what the client gets back: a success, the 400/404 of the handler, another
\* non-success status, or a rejected fetch
RespClass(net, u, op) ==
  IF net = "err" THEN "err"
  ELSE IF net = "reject" THEN "reject"
  ELSE IF SrvOk(srvNotes, u, op) THEN "ok" ELSE "4xx"
ServerAfter(net, u, op) ==
  /\ srvNotes' = IF net = "deliver" THEN SrvApply(srvNotes, srvNextId, u, op) ELSE srvNotes
  /\ srvNextId' = IF net = "deliver" /\ SrvUsesId(srvNotes, u, op)
                    THEN srvNextId + 1 ELSE srvNextId

\* ------------------------------------------------------------------ init
Init ==
  /\ session = NoUser
  /\ storedSession = NoUser
  /\ serverStatus = "checking"
  /\ isOfflineMode = FALSE
  /\ notes = {}
  /\ selectedDate = NoDate
  /\ currentNoteId = NoId
  /\ wasOffline = FALSE
  \* the health effect's first run has called checkHealth()
  /\ tasks = One([NoTask EXCEPT !.pc = "health", !.before = "checking"])
  /\ syncQ = <<>>
  /\ cache = [u \in Users |-> {}]
  /\ srvNotes = {}
  /\ srvNextId = 1
  /\ now = 0
  /\ acked = {}
  /\ failedSincePass = FALSE
  /\ cancelBefore = "none"
  /\ failCount = 0
  /\ lastEvent = <<"none", "none">>
  /\ ls = NoStorage
  /\ call = NoCall
  /\ handlers = EmptyBag

\* -------------------------------------------- App: health-monitoring effect
\* `const interval = setInterval(checkHealth, 5000)` fires, or the effect body
\* calls checkHealth(): the run up to `await fetch(.../health)`
HealthTask(u, st) == [NoTask EXCEPT !.pc = "health", !.user = u, !.before = st]

StartCheck ==
  /\ NumTasks < MaxTasks
  /\ serverStatus' = "checking"
  /\ tasks' = tasks (+) One(HealthTask(session, serverStatus))
  /\ UNCHANGED <<appVars, isOfflineMode, notes, wasOffline, syncQ, cache, srvVars, now,
                 acked, failedSincePass, cancelBefore, failCount>>

\* the catch block of checkHealth; a stale task's `wasOffline` is the variable
\* of an effect closure that was torn down
HealthCatchAll(t, errName) ==
  /\ serverStatus' = "offline"
  /\ isOfflineMode' = TRUE
  /\ wasOffline' = IF t.stale THEN wasOffline ELSE TRUE
  /\ failedSincePass' = TRUE
HealthCatch(t, errName) ==
  IF errName # "AbortError"
    THEN /\ serverStatus' = "offline"
         /\ isOfflineMode' = TRUE
         /\ wasOffline' = IF t.stale THEN wasOffline ELSE TRUE
         /\ failedSincePass' = TRUE
    ELSE UNCHANGED <<serverStatus, isOfflineMode, wasOffline, failedSincePass>>

\* retryFailedRequests up to its first await: the snapshot `queue`, the early
\* return on an empty queue, the first request of the loop
BeginDrainNoReturn(t) ==
  [t EXCEPT !.pc = "fetch", !.before = "none", !.q = syncQ, !.sent = <<0>>]
BeginDrain(t) ==
  IF Len(syncQ) = 0
    THEN [t EXCEPT !.pc = "fetch", !.before = "none"]
    ELSE [t EXCEPT !.pc = "drain", !.before = "none", !.q = syncQ, !.k = 1,
                   !.sent = <<syncQ[ReplayOrder(syncQ)[1] + 1].ts>>]

\* the health fetch was aborted by the effect's cleanup: it rejects with AbortError
HealthAborted(t) ==
  /\ t.pc = "health" /\ t.aborted
  /\ HealthCatch(t, "AbortError")
  /\ tasks' = Drop(t)
  /\ cancelBefore' = t.before
  /\ UNCHANGED <<appVars, notes, syncQ, cache, srvVars, now, acked, failCount>>

\* the health request failed: a non-ok status or a transport error
HealthFail(t) ==
  /\ t.pc = "health" /\ ~t.aborted
  /\ HealthCatch(t, "Error")
  /\ tasks' = Drop(t)
  /\ UNCHANGED <<appVars, notes, syncQ, cache, srvVars, now, acked, cancelBefore, failCount>>

\* the health request answered ok
HealthOk(t) ==
  /\ t.pc = "health" /\ ~t.aborted
  /\ serverStatus' = "online"
  /\ isOfflineMode' = FALSE
  /\ IF wasOffline /\ t.user # NoUser
       THEN /\ tasks' = Replace(t, BeginDrain(t))
            /\ failedSincePass' = FALSE
            /\ UNCHANGED wasOffline
       ELSE /\ tasks' = Drop(t)
            /\ wasOffline' = IF t.stale THEN wasOffline ELSE FALSE
            /\ UNCHANGED failedSincePass
  /\ UNCHANGED <<appVars, notes, syncQ, cache, srvVars, now, acked, cancelBefore, failCount>>

\* ------------------------------------------------- retryFailedRequests loop
\* the local `queue` after the answer for queue[i]
AfterReplay(t, ok) ==
  IF ok THEN t.q ELSE [t.q EXCEPT ![CurIndex(t) + 1].retries = @ + 1]

\* the persisted queue after the answer for queue[i]
QueueAfterReplay(t, ok) ==
  IF ok \/ AfterReplay(t, ok)[CurIndex(t) + 1].retries > MaxRetries
    THEN QueueRemove(syncQ, CurIndex(t))
    ELSE syncQ

\* the task after the answer: the next request of the loop or, after the last
\* one, `updatedQueue = getAll(); setItem(updatedQueue)`, the return and the
\* notes refresh request of checkHealth
NextReplay(t, ok) ==
  LET q1 == AfterReplay(t, ok)
      f1 == IF ok THEN t.nfail ELSE t.nfail + 1
  IN IF t.k < Len(t.q)
       THEN [t EXCEPT !.q = q1, !.nfail = f1, !.k = @ + 1,
                      !.sent = Append(@, q1[ReplayOrder(q1)[t.k + 1] + 1].ts)]
       ELSE [t EXCEPT !.q = q1, !.nfail = f1, !.pc = "fetch"]

ReplaySettle(t, net) ==
  /\ t.pc = "drain"
  /\ CanSettle(net, t.user, CurOp(t))
  /\ LET ok == RespOk(net, t.user, CurOp(t))
     IN /\ syncQ' = QueueAfterReplay(t, ok)
        /\ tasks' = Replace(t, NextReplay(t, ok))
        /\ acked' = IF ok THEN acked \cup {CurOp(t).ts} ELSE acked
  /\ ServerAfter(net, t.user, CurOp(t))
  /\ UNCHANGED <<appVars, serverStatus, isOfflineMode, notes, wasOffline, cache, now,
                 failedSincePass, cancelBefore>>

\* ---------------------------------------- checkHealth: refresh after drain
\* setNotes(serverNotes); notesStorage.save(session.user.id, serverNotes)
StoreFetchedNoSave(u, list) == notes' = list /\ UNCHANGED cache
StoreFetched(u, list) == notes' = list /\ cache' = [cache EXCEPT ![u] = list]

NotesFetchSettle(t, net) ==
  /\ t.pc = "fetch"
  /\ IF net = "deliver"
       THEN StoreFetched(t.user, UserNotes(srvNotes, t.user))
       ELSE UNCHANGED <<notes, cache>>
  /\ wasOffline' = IF t.stale THEN wasOffline ELSE FALSE
  /\ tasks' = Drop(t)
  /\ UNCHANGED <<appVars, serverStatus, isOfflineMode, syncQ, srvVars, now, acked,
                 failedSincePass, cancelBefore>>

\* ------------------------------------------------------ Notes: handlers
NoteFor(S, d) == {n \in S : n.date = d}
IdFor(S, d) == IF NoteFor(S, d) = {} THEN NoId ELSE (CHOOSE n \in NoteFor(S, d) : TRUE).id

\* onNoteSaved(updatedNotes): setNotes, notesStorage.save(session.user.id, ...)
OnNoteSavedStateOnly(u, list) == notes' = list /\ UNCHANGED cache
OnNoteSaved(u, list) == notes' = list /\ cache' = [cache EXCEPT ![u] = list]

\* the offline branch of handleSave, run with the values its closure captured
SaveOffline(u, d, c, nid, stale) ==
  /\ now < MaxOps
  /\ now' = now + 1
  /\ LET noteToSave == [id |-> IF nid # NoId THEN nid ELSE TempId(now'),
                        user |-> u, date |-> d, content |-> c]
         cachedNotes == {n \in cache[u] : n.date # d} \cup {noteToSave}
     IN /\ OnNoteSaved(u, cachedNotes)
        /\ currentNoteId' = IF stale THEN currentNoteId ELSE noteToSave.id
  /\ syncQ' = QueueAdd(syncQ, PostOp(d, c), now')

\* the offline branch of handleDelete
DeleteOffline(u, nid, stale) ==
  /\ IF IsTemp(nid)
       THEN UNCHANGED <<now, syncQ>>
       ELSE /\ now < MaxOps
            /\ now' = now + 1
            /\ syncQ' = QueueAdd(syncQ, DeleteOp(nid), now')
  /\ OnNoteSaved(u, {n \in cache[u] : n.id # nid})
  /\ currentNoteId' = IF stale THEN currentNoteId ELSE NoId

\* the user clicks Save with content c typed
Save(c) ==
  /\ session # NoUser /\ selectedDate # NoDate
  /\ IF ~isOfflineMode
       THEN /\ NumTasks < MaxTasks
            /\ tasks' = tasks (+) One([NoTask EXCEPT !.pc = "save", !.user = session,
                                         !.date = selectedDate, !.content = c,
                                         !.nid = currentNoteId])
            /\ UNCHANGED <<currentNoteId, notes, cache, syncQ, now>>
       ELSE /\ SaveOffline(session, selectedDate, c, currentNoteId, FALSE)
            /\ UNCHANGED tasks
  /\ UNCHANGED <<session, storedSession, selectedDate, serverStatus, isOfflineMode,
                 wasOffline, srvVars, acked, failedSincePass, cancelBefore, failCount>>

\* the POST of handleSave settles
SaveSettle(t, net) ==
  /\ t.pc = "save"
  /\ CanSettle(net, t.user, PostOp(t.date, t.content))
  /\ ServerAfter(net, t.user, PostOp(t.date, t.content))
  /\ IF RespOk(net, t.user, PostOp(t.date, t.content))
       THEN /\ OnNoteSaved(t.user, UserNotes(srvNotes', t.user))
            /\ currentNoteId' =
                 IF t.stale \/ NoteFor(UserNotes(srvNotes', t.user), t.date) = {}
                   THEN currentNoteId
                   ELSE IdFor(UserNotes(srvNotes', t.user), t.date)
            /\ UNCHANGED <<syncQ, now>>
       ELSE SaveOffline(t.user, t.date, t.content, t.nid, t.stale)
  /\ tasks' = Drop(t)
  /\ UNCHANGED <<session, storedSession, selectedDate, serverStatus, isOfflineMode,
                 wasOffline, acked, failedSincePass, cancelBefore, failCount>>

\* the user clicks Delete and confirms
Delete ==
  /\ session # NoUser /\ selectedDate # NoDate /\ currentNoteId # NoId
  /\ IF ~isOfflineMode /\ ~IsTemp(currentNoteId)
       THEN /\ NumTasks < MaxTasks
            /\ tasks' = tasks (+) One([NoTask EXCEPT !.pc = "delete", !.user = session,
                                         !.date = selectedDate, !.nid = currentNoteId])
            /\ UNCHANGED <<currentNoteId, notes, cache, syncQ, now>>
       ELSE /\ DeleteOffline(session, currentNoteId, FALSE)
            /\ UNCHANGED tasks
  /\ UNCHANGED <<session, storedSession, selectedDate, serverStatus, isOfflineMode,
                 wasOffline, srvVars, acked, failedSincePass, cancelBefore, failCount>>

\* the DELETE of handleDelete settles
DeleteSettle(t, net) ==
  /\ t.pc = "delete"
  /\ ServerAfter(net, t.user, DeleteOp(t.nid))
  /\ IF RespOk(net, t.user, DeleteOp(t.nid))
       THEN /\ OnNoteSaved(t.user, UserNotes(srvNotes', t.user))
            /\ currentNoteId' = IF t.stale THEN currentNoteId ELSE NoId
            /\ UNCHANGED <<syncQ, now>>
       ELSE DeleteOffline(t.user, t.nid, t.stale)
  /\ tasks' = Drop(t)
  /\ UNCHANGED <<session, storedSession, selectedDate, serverStatus, isOfflineMode,
                 wasOffline, acked, failedSincePass, cancelBefore, failCount>>

\* the user picks a date: setSelectedDate and the Notes effect loadNoteForDate,
\* which reads the note id from the server (not in offline mode, answer ok) or
\* from the cache
SelectDate(d, fromServer) ==
  /\ session # NoUser /\ d # selectedDate
  /\ fromServer => ~isOfflineMode
  /\ selectedDate' = d
  /\ currentNoteId' = IF fromServer THEN IdFor(UserNotes(srvNotes, session), d)
                      ELSE IdFor(cache[session], d)
  /\ UNCHANGED <<session, storedSession, serverStatus, isOfflineMode, notes, wasOffline,
                 tasks, syncQ, cache, srvVars, now, acked, failedSincePass, cancelBefore, failCount>>

\* ------------------------------------------------------ App: session change
RECURSIVE SumCopies(_, _)
SumCopies(S, T) ==
  IF S = {} THEN 0
  ELSE LET t == CHOOSE x \in S : TRUE IN CopiesIn(t, T) + SumCopies(S \ {t}, T)

\* The cleanup of the health effect: controller.abort() rejects every pending
\* health fetch, clearInterval; the closures of the old render are stale.
Cleaned(t) == [t EXCEPT !.stale = TRUE, !.aborted = (t.pc = "health")]
Cleanup(T) ==
  LET S == {Cleaned(t) : t \in BagToSet(T)}
  IN [s \in S |-> SumCopies({t \in BagToSet(T) : Cleaned(t) = s}, T)]

\* The effects that depend on `session` run again: the health effect's cleanup
\* and body (wasOffline = false, checkHealth()), and loadNotes().
SessionEffects(u) ==
  /\ wasOffline' = FALSE
  /\ serverStatus' = "checking"
  /\ tasks' = (Cleanup(tasks) (+) One(HealthTask(u, serverStatus)))
                (+) (IF u = NoUser THEN EmptyBag
                     ELSE One([NoTask EXCEPT !.pc = "load", !.user = u]))
  /\ BagCardinality(tasks') <= MaxTasks

\* Login's onAuth(payload)
Login(u) ==
  /\ session = NoUser
  /\ session' = u
  /\ storedSession' = u
  /\ SessionEffects(u)
  /\ UNCHANGED <<selectedDate, currentNoteId, isOfflineMode, notes, syncQ, cache,
                 srvVars, now, acked, failedSincePass, cancelBefore, failCount>>

\* the Log out button
Logout ==
  /\ session # NoUser
  /\ storedSession' = NoUser
  /\ cache' = [cache EXCEPT ![session] = {}]
  /\ session' = NoUser
  /\ selectedDate' = NoDate
  /\ notes' = {}
  /\ isOfflineMode' = FALSE
  /\ currentNoteId' = NoId
  /\ SessionEffects(NoUser)
  /\ UNCHANGED <<syncQ, srvVars, now, acked, failedSincePass, cancelBefore, failCount>>

\* loadNotes() settles
LoadSettle(t, net) ==
  /\ t.pc = "load"
  /\ IF net = "deliver"
       THEN /\ StoreFetched(t.user, UserNotes(srvNotes, t.user))
            /\ isOfflineMode' = FALSE
       ELSE IF cache[t.user] # {}
         THEN /\ notes' = cache[t.user]
              /\ isOfflineMode' = TRUE
              /\ UNCHANGED cache
         ELSE UNCHANGED <<notes, cache, isOfflineMode>>
  /\ tasks' = Drop(t)
  /\ UNCHANGED <<appVars, serverStatus, wasOffline, syncQ, srvVars, now, acked,
                 failedSincePass, cancelBefore, failCount>>

\* ------------------------------------------------------------------ spec
\* the handler that ran and how its request, if it settled one, was answered
Event(h, r) == lastEvent' = <<h, r>> /\ UNCHANGED <<ls, call, handlers>>
Quiet == Event("other", "none")
\* a click on Save: the offline branch ran, or the request was sent
SaveEvent == IF isOfflineMode THEN Event("save", "offline") ELSE Quiet

Next ==
  \/ StartCheck /\ Quiet
  \/ \E t \in TaskSet : HealthAborted(t) /\ Quiet
  \/ \E t \in TaskSet : HealthFail(t) /\ Quiet
  \/ \E t \in TaskSet : HealthOk(t) /\ Quiet
  \/ \E t \in TaskSet, net \in NetOutcomes :
       ReplaySettle(t, net) /\ Quiet /\ UNCHANGED failCount
  \/ \E t \in TaskSet, net \in NetOutcomes :
       NotesFetchSettle(t, net) /\ Quiet /\ UNCHANGED failCount
  \/ \E c \in Contents :
       Save(c) /\ SaveEvent
  \/ \E t \in TaskSet, net \in NetOutcomes :
       SaveSettle(t, net) /\ Event("save", RespClass(net, t.user, PostOp(t.date, t.content)))
  \/ Delete /\ Quiet
  \/ \E t \in TaskSet, net \in NetOutcomes :
       DeleteSettle(t, net) /\ Event("delete", RespClass(net, t.user, DeleteOp(t.nid)))
  \/ \E d \in Dates, fromServer \in BOOLEAN : SelectDate(d, fromServer) /\ Quiet
  \/ \E u \in Users : Login(u) /\ Quiet
  \/ Logout /\ Quiet
  \/ \E t \in TaskSet, net \in NetOutcomes : LoadSettle(t, net) /\ Quiet

Spec == Init /\ [][Next]_vars

\* ------------------------------------------------- scenario: failing DELETE
\* The user deleted note 1 while offline: one DELETE is queued.  From here
\* every replay fails (the note is gone on the server, or the request does
\* not get through) and failCount counts the failed replays.  Every check
\* settles, with the pass it started, before the next timer tick, so that the
\* passes follow one another.
InitRetry ==
  /\ session = "u1"
  /\ storedSession = "u1"
  /\ serverStatus = "offline"
  /\ isOfflineMode = TRUE
  /\ notes = {}
  /\ selectedDate = "d1"
  /\ currentNoteId = NoId
  /\ wasOffline = TRUE
  /\ tasks = EmptyBag
  /\ syncQ = <<[DeleteOp(1) EXCEPT !.ts = 1]>>
  /\ cache = [u \in Users |-> {}]
  /\ srvNotes \in {{}, {[id |-> 1, user |-> "u1", date |-> "d1", content |-> "x"]}}
  /\ srvNextId = 2
  /\ now = 1
  /\ acked = {}
  /\ failedSincePass = TRUE
  /\ cancelBefore = "none"
  /\ failCount = 0
  /\ lastEvent = <<"none", "none">>
  /\ ls = NoStorage
  /\ call = NoCall
  /\ handlers = EmptyBag

ReplayFails(t, net) ==
  /\ t.pc = "drain"
  /\ ~RespOk(net, t.user, CurOp(t))
  /\ failCount < MaxFails
  /\ ReplaySettle(t, net)
  /\ failCount' = failCount + 1

StartCheckIdle == NumTasks = 0 /\ StartCheck

NextRetry ==
  \/ StartCheckIdle /\ Quiet
  \/ \E t \in TaskSet : HealthFail(t) /\ Quiet
  \/ \E t \in TaskSet : HealthOk(t) /\ Quiet
  \/ \E t \in TaskSet, net \in NetOutcomes :
       ReplayFails(t, net) /\ Quiet
  \/ \E t \in TaskSet, net \in NetOutcomes :
       NotesFetchSettle(t, net) /\ Quiet /\ UNCHANGED failCount

SpecRetry == InitRetry /\ [][NextRetry]_vars

\* ------------------------------------------- scenario: rejected requests
\* The user is logged in, the server is reachable, a date is selected and the
\* textarea may be blank when Save is clicked: the server answers a POST
\* without content with 400.  Checks follow one another.
InitReject ==
  /\ session = "u1"
  /\ storedSession = "u1"
  /\ serverStatus = "online"
  /\ isOfflineMode = FALSE
  /\ notes = {}
  /\ selectedDate = "d1"
  /\ currentNoteId = NoId
  /\ wasOffline = FALSE
  /\ tasks = EmptyBag
  /\ syncQ = <<>>
  /\ cache = [u \in Users |-> {}]
  /\ srvNotes = {}
  /\ srvNextId = 1
  /\ now = 0
  /\ acked = {}
  /\ failedSincePass = FALSE
  /\ cancelBefore = "none"
  /\ failCount = 0
  /\ lastEvent = <<"none", "none">>
  /\ ls = NoStorage
  /\ call = NoCall
  /\ handlers = EmptyBag

NextReject ==
  \/ StartCheckIdle /\ Quiet
  \/ \E t \in TaskSet : HealthFail(t) /\ Quiet
  \/ \E t \in TaskSet : HealthOk(t) /\ Quiet
  \/ \E t \in TaskSet, net \in NetOutcomes :
       /\ ReplaySettle(t, net)
       /\ Event("replay", RespClass(net, t.user, CurOp(t)))
       /\ UNCHANGED failCount
  \/ \E t \in TaskSet, net \in NetOutcomes :
       NotesFetchSettle(t, net) /\ Quiet /\ UNCHANGED failCount
  \/ \E c \in Typed :
       Save(c) /\ SaveEvent
  \/ \E t \in TaskSet, net \in NetOutcomes :
       SaveSettle(t, net) /\ Event("save", RespClass(net, t.user, PostOp(t.date, t.content)))
  \/ Delete /\ Quiet
  \/ \E t \in TaskSet, net \in NetOutcomes :
       DeleteSettle(t, net) /\ Event("delete", RespClass(net, t.user, DeleteOp(t.nid)))

SpecReject == InitReject /\ [][NextReject]_vars

\* ------------------------------------------------ scenario: offline work
\* The user is logged in with a date selected when a probe fails; the server
\* holds no note or one note for the date.  The user saves and deletes
\* while the application is in offline mode; checks follow one another.
\* Here lastEvent is the user's last action: <<"save", content>>, or
\* <<"delete", "temp">> / <<"delete", "real">> by the id of the note deleted.
OfflineContents == {"x", "y"}
StoredNote == [id |-> 1, user |-> "u1", date |-> "d1", content |-> "x"]

InitOffline ==
  /\ session = "u1"
  /\ storedSession = "u1"
  /\ serverStatus = "offline"
  /\ isOfflineMode = TRUE
  /\ srvNotes \in {{}, {StoredNote}}
  /\ notes = srvNotes
  /\ selectedDate = "d1"
  /\ currentNoteId = IdFor(srvNotes, "d1")
  /\ wasOffline = TRUE
  /\ tasks = EmptyBag
  /\ syncQ = <<>>
  /\ cache = [u \in Users |-> srvNotes]
  /\ srvNextId = Cardinality(srvNotes) + 1
  /\ now = 0
  /\ acked = {}
  /\ failedSincePass = TRUE
  /\ cancelBefore = "none"
  /\ failCount = 0
  /\ lastEvent = <<"none", "none">>
  /\ ls = NoStorage
  /\ call = NoCall
  /\ handlers = EmptyBag

Idle == UNCHANGED <<lastEvent, ls, call, handlers>>

NextOffline ==
  \/ StartCheckIdle /\ Idle
  \/ \E t \in TaskSet : HealthFail(t) /\ Idle
  \/ \E t \in TaskSet : HealthOk(t) /\ Idle
  \/ \E t \in TaskSet, net \in NetOutcomes :
       ReplaySettle(t, net) /\ Idle /\ UNCHANGED failCount
  \/ \E t \in TaskSet, net \in NetOutcomes :
       NotesFetchSettle(t, net) /\ Idle /\ UNCHANGED failCount
  \/ \E c \in OfflineContents :
       isOfflineMode /\ Save(c) /\ Event("save", c)
  \/ /\ isOfflineMode /\ Delete
     /\ Event("delete", IF IsTemp(currentNoteId) THEN "temp" ELSE "real")

SpecOffline == InitOffline /\ [][NextOffline]_vars

\* ------------------------------------------- scenario: a shared browser
\* Two users share the browser.  u1 saved a note while offline: the cache of
\* u1 holds it under a temporary id and the queue holds its POST; no further
\* operation is enqueued.  The users log out and in, probes succeed and
\* fail, passes run.
BrowserUsers == {"u1", "u2"}
QueuedNote == [id |-> TempId(1), user |-> "u1", date |-> "d1", content |-> "x"]

InitShared ==
  /\ session = "u1"
  /\ storedSession = "u1"
  /\ serverStatus = "offline"
  /\ isOfflineMode = TRUE
  /\ notes = {QueuedNote}
  /\ selectedDate = "d1"
  /\ currentNoteId = QueuedNote.id
  /\ wasOffline = TRUE
  /\ tasks = EmptyBag
  /\ syncQ = <<[PostOp("d1", "x") EXCEPT !.ts = 1]>>
  /\ cache = [u \in BrowserUsers |-> IF u = "u1" THEN {QueuedNote} ELSE {}]
  /\ srvNotes = {}
  /\ srvNextId = 1
  /\ now = MaxOps
  /\ acked = {}
  /\ failedSincePass = TRUE
  /\ cancelBefore = "none"
  /\ failCount = 0
  /\ lastEvent = <<"none", "none">>
  /\ ls = NoStorage
  /\ call = NoCall
  /\ handlers = EmptyBag

NextShared ==
  \/ StartCheck /\ Quiet
  \/ \E t \in TaskSet : HealthAborted(t) /\ Quiet
  \/ \E t \in TaskSet : HealthFail(t) /\ Quiet
  \/ \E t \in TaskSet : HealthOk(t) /\ Quiet
  \/ \E t \in TaskSet, net \in NetOutcomes :
       ReplaySettle(t, net) /\ Quiet /\ UNCHANGED failCount
  \/ \E t \in TaskSet, net \in NetOutcomes :
       NotesFetchSettle(t, net) /\ Quiet /\ UNCHANGED failCount
  \/ \E u \in BrowserUsers : Login(u) /\ Quiet
  \/ Logout /\ Quiet
  \/ \E t \in TaskSet, net \in NetOutcomes : LoadSettle(t, net) /\ Quiet

SpecShared == InitShared /\ [][NextShared]_vars

\* ------------------------------------------- scenario: after a page load
\* The page is loaded with the session of u1 in localStorage, the note u1
\* saved offline in the cache and its POST in the queue: the session-restore
\* effect has set the session, the cached notes and offline mode, and the
\* effects that depend on the session have called checkHealth() and
\* loadNotes().  The user may save again.  Here lastEvent is the step just
\* taken and how its request was answered.  The timer keeps firing and
\* every request settles.
InitLive ==
  /\ session = "u1"
  /\ storedSession = "u1"
  /\ serverStatus = "checking"
  /\ isOfflineMode = TRUE
  /\ notes = {QueuedNote}
  /\ selectedDate = "d1"
  /\ currentNoteId = QueuedNote.id
  /\ wasOffline = FALSE
  /\ tasks = One(HealthTask("u1", "checking"))
               (+) One([NoTask EXCEPT !.pc = "load", !.user = "u1"])
  /\ syncQ = <<[PostOp("d1", "x") EXCEPT !.ts = 1]>>
  /\ cache = [u \in Users |-> {QueuedNote}]
  /\ srvNotes = {}
  /\ srvNextId = 1
  /\ now = 1
  /\ acked = {}
  /\ failedSincePass = FALSE
  /\ cancelBefore = "none"
  /\ failCount = 0
  /\ lastEvent = <<"none", "none">>
  /\ ls = NoStorage
  /\ call = NoCall
  /\ handlers = EmptyBag

LiveCheck == StartCheckIdle /\ Event("health", "start")
LiveHealth ==
  \/ \E t \in TaskSet : HealthFail(t) /\ Event("health", "err")
  \/ \E t \in TaskSet : HealthOk(t) /\ Event("health", "ok")
LiveReplay ==
  \E t \in TaskSet, net \in NetOutcomes :
    /\ ReplaySettle(t, net)
    /\ Event("replay", RespClass(net, t.user, CurOp(t)))
    /\ UNCHANGED failCount
LiveFetch ==
  \E t \in TaskSet, net \in NetOutcomes :
    /\ NotesFetchSettle(t, net)
    /\ Event("fetch", IF net = "deliver" THEN "ok" ELSE net)
    /\ UNCHANGED failCount
LiveLoad ==
  \E t \in TaskSet, net \in NetOutcomes :
    LoadSettle(t, net) /\ Event("load", IF net = "deliver" THEN "ok" ELSE net)
LiveSave == \E c \in Contents : Save(c) /\ Event("save", "click")
LiveSaveSettle ==
  \E t \in TaskSet, net \in NetOutcomes :
    SaveSettle(t, net) /\ Event("save", RespClass(net, t.user, PostOp(t.date, t.content)))

NextLive ==
  \/ LiveCheck
  \/ LiveHealth
  \/ LiveReplay
  \/ LiveFetch
  \/ LiveLoad
  \/ LiveSave
  \/ LiveSaveSettle

\* setInterval keeps calling checkHealth, and every request is answered or
\* fails in the end
FairLive ==
  /\ WF_vars(LiveCheck)
  /\ WF_vars(LiveHealth)
  /\ WF_vars(LiveReplay)
  /\ WF_vars(LiveFetch)
  /\ WF_vars(LiveLoad)
  /\ WF_vars(LiveSaveSettle)

SpecLive == InitLive /\ [][NextLive]_vars /\ FairLive

\* ------------------------------------------------ localStorage as text
\* The entries of localStorage are texts; a text is a sequence of characters.
\* JavaScript values are tagged records: null, numbers (their digits),
\* strings, booleans, arrays and objects (the sequence of their members, a
\* member being <<key, value>>).
JNull == [t |-> "null", v |-> <<>>]
JNum(ds) == [t |-> "num", v |-> ds]
JStr(cs) == [t |-> "str", v |-> cs]
JBool(b) == [t |-> "bool", v |-> IF b THEN <<"t">> ELSE <<"f">>]
JArr(items) == [t |-> "arr", v |-> items]
JObj(members) == [t |-> "obj", v |-> members]

Digits == {"0", "1", "2", "3", "4", "5", "6", "7", "8", "9"}

\* obj[key] = val: an existing member keeps its place, a new one goes last
RECURSIVE SetMember(_, _, _)
SetMember(ms, key, val) ==
  IF ms = <<>> THEN <<(<<key, val>>)>>
  ELSE IF Head(ms)[1] = key THEN <<(<<key, val>>)>> \o Tail(ms)
  ELSE <<Head(ms)>> \o SetMember(Tail(ms), key, val)

\* the characters of a string between the quotes of its JSON text
RECURSIVE Quote(_)
QuoteRaw(cs) == cs
Quote(cs) ==
  IF cs = <<>> THEN <<>>
  ELSE (IF Head(cs) \in {"\"", "\\"} THEN <<"\\", Head(cs)>> ELSE <<Head(cs)>>)
         \o Quote(Tail(cs))

\* JSON.stringify(value)
RECURSIVE JSONStringify(_)
RECURSIVE StringifyItems(_)
RECURSIVE StringifyMembers(_)
StringifyItems(items) ==
  IF items = <<>> THEN <<>>
  ELSE JSONStringify(Head(items))
         \o (IF Len(items) > 1 THEN <<",">> \o StringifyItems(Tail(items)) ELSE <<>>)
StringifyMembers(ms) ==
  IF ms = <<>> THEN <<>>
  ELSE <<"\"">> \o Quote(Head(ms)[1]) \o <<"\"", ":">> \o JSONStringify(Head(ms)[2])
         \o (IF Len(ms) > 1 THEN <<",">> \o StringifyMembers(Tail(ms)) ELSE <<>>)
JSONStringify(val) ==
  CASE val.t = "null" -> <<"n", "u", "l", "l">>
    [] val.t = "num" -> val.v
    [] val.t = "bool" -> IF val.v = <<"t">> THEN <<"t", "r", "u", "e">>
                         ELSE <<"f", "a", "l", "s", "e">>
    [] val.t = "str" -> <<"\"">> \o Quote(val.v) \o <<"\"">>
    [] val.t = "arr" -> <<"[">> \o StringifyItems(val.v) \o <<"]">>
    [] val.t = "obj" -> <<"{">> \o StringifyMembers(val.v) \o <<"}">>

\* JSON.parse(text), by recursive descent from position i; a result is the
\* value and the position after it, or a failure (SyntaxError)
NoParse == [ok |-> FALSE, val |-> JNull, pos |-> 0]
Parsed(val, pos) == [ok |-> TRUE, val |-> val, pos |-> pos]
CharAt(text, i) == IF i >= 1 /\ i <= Len(text) THEN text[i] ELSE "end"
Word(text, i, w) == i + Len(w) - 1 <= Len(text) /\ SubSeq(text, i, i + Len(w) - 1) = w

RECURSIVE ParseDigits(_, _, _)
ParseDigits(text, i, acc) ==
  IF CharAt(text, i) \in Digits
    THEN ParseDigits(text, i + 1, Append(acc, text[i]))
    ELSE Parsed(JNum(acc), i)

\* from the position after the opening quote
RECURSIVE ParseString(_, _, _)
ParseString(text, i, acc) ==
  IF i > Len(text) THEN NoParse
  ELSE IF text[i] = "\"" THEN Parsed(JStr(acc), i + 1)
  ELSE IF text[i] = "\\"
    THEN IF CharAt(text, i + 1) \in {"\"", "\\"}
           THEN ParseString(text, i + 2, Append(acc, text[i + 1]))
           ELSE NoParse
  ELSE ParseString(text, i + 1, Append(acc, text[i]))

RECURSIVE ParseValue(_, _)
RECURSIVE ParseItems(_, _, _)
RECURSIVE ParseMembers(_, _, _)
\* from the position of an item of an array
ParseItems(text, i, acc) ==
  LET r == ParseValue(text, i)
  IN IF ~r.ok THEN NoParse
     ELSE IF CharAt(text, r.pos) = "," THEN ParseItems(text, r.pos + 1, Append(acc, r.val))
     ELSE IF CharAt(text, r.pos) = "]" THEN Parsed(JArr(Append(acc, r.val)), r.pos + 1)
     ELSE NoParse
\* from the position of the key of a member of an object
ParseMembers(text, i, acc) ==
  IF CharAt(text, i) # "\"" THEN NoParse
  ELSE LET k == ParseString(text, i + 1, <<>>)
       IN IF ~k.ok \/ CharAt(text, k.pos) # ":" THEN NoParse
          ELSE LET r == ParseValue(text, k.pos + 1)
                   ms == SetMember(acc, k.val.v, r.val)
               IN IF ~r.ok THEN NoParse
                  ELSE IF CharAt(text, r.pos) = "," THEN ParseMembers(text, r.pos + 1, ms)
                  ELSE IF CharAt(text, r.pos) = "}" THEN Parsed(JObj(ms), r.pos + 1)
                  ELSE NoParse
ParseValue(text, i) ==
  LET c == CharAt(text, i)
  IN IF Word(text, i, <<"n", "u", "l", "l">>) THEN Parsed(JNull, i + 4)
     ELSE IF Word(text, i, <<"t", "r", "u", "e">>) THEN Parsed(JBool(TRUE), i + 4)
     ELSE IF Word(text, i, <<"f", "a", "l", "s", "e">>) THEN Parsed(JBool(FALSE), i + 5)
     ELSE IF c \in Digits THEN ParseDigits(text, i, <<>>)
     ELSE IF c = "\"" THEN ParseString(text, i + 1, <<>>)
     ELSE IF c = "[" THEN
       IF CharAt(text, i + 1) = "]" THEN Parsed(JArr(<<>>), i + 2)
       ELSE ParseItems(text, i + 1, <<>>)
     ELSE IF c = "{" THEN
       IF CharAt(text, i + 1) = "}" THEN Parsed(JObj(<<>>), i + 2)
       ELSE ParseMembers(text, i + 1, <<>>)
     ELSE NoParse

\* the whole text must be one value
JSONParse(text) ==
  LET r == ParseValue(text, 1)
  IN IF r.ok /\ r.pos = Len(text) + 1 THEN r ELSE NoParse

\* ------------------------------------------------ offlineStorage.js on text
STORAGE_PREFIX == <<"w", "e", "l", "l", "w", "o", "r", "k", "_">>

\* `${STORAGE_PREFIX}${key}_${userId}`
getUserKeyShared(userId, key) == STORAGE_PREFIX \o key
getUserKey(userId, key) == STORAGE_PREFIX \o key \o <<"_">> \o userId

NotesKey(userId) == getUserKey(userId, <<"n", "o", "t", "e", "s">>)
SessionKey == STORAGE_PREFIX \o <<"s", "e", "s", "s", "i", "o", "n">>
QueueKey == STORAGE_PREFIX \o <<"s", "y", "n", "c", "_", "q", "u", "e", "u", "e">>

\* localStorage.getItem / setItem / removeItem
GetItem(st, key) ==
  IF key \in DOMAIN st THEN [found |-> TRUE, text |-> st[key]]
  ELSE [found |-> FALSE, text |-> <<>>]
SetItem(st, key, text) == [k \in DOMAIN st \cup {key} |-> IF k = key THEN text ELSE st[k]]
RemoveItem(st, key) == [k \in DOMAIN st \ {key} |-> st[k]]

\* `data ? JSON.parse(data) : []`, inside try/catch returning []
Truthy(item) == item.found /\ item.text # <<>>
ParseOrEmpty(item) ==
  IF ~Truthy(item) THEN JArr(<<>>)
  ELSE IF JSONParse(item.text).ok THEN JSONParse(item.text).val
  ELSE JArr(<<>>)

\* The storage functions: the storage after the call and what the call
\* returns.  `fits` is whether setItem stores the text or throws (quota).
NotesStorageSave(st, userId, list, fits) ==
  IF fits THEN [ls |-> SetItem(st, NotesKey(userId), JSONStringify(list)), ret |-> JBool(TRUE)]
  ELSE [ls |-> st, ret |-> JBool(FALSE)]
NotesStorageLoad(st, userId) == ParseOrEmpty(GetItem(st, NotesKey(userId)))
NotesStorageClear(st, userId) == RemoveItem(st, NotesKey(userId))

SyncQueueGetAll(st) == ParseOrEmpty(GetItem(st, QueueKey))

\* {...operation, timestamp: Date.now(), retries: 0}
Key_timestamp == <<"t", "i", "m", "e", "s", "t", "a", "m", "p">>
Key_retries == <<"r", "e", "t", "r", "i", "e", "s">>
StampKeepRetries(operation, ts) == JObj(SetMember(operation.v, Key_timestamp, JNum(ts)))
Stamp(operation, ts) ==
  JObj(SetMember(SetMember(operation.v, Key_timestamp, JNum(ts)), Key_retries, JNum(<<"0">>)))

\* queue.push / queue.splice throw a TypeError when getAll returned no array
SyncQueueAdd(st, operation, ts, fits) ==
  LET queue == SyncQueueGetAll(st)
  IN IF queue.t = "arr" /\ fits
       THEN [ls |-> SetItem(st, QueueKey,
                            JSONStringify(JArr(Append(queue.v, Stamp(operation, ts))))),
             ret |-> JBool(TRUE)]
       ELSE [ls |-> st, ret |-> JBool(FALSE)]
SyncQueueRemove(st, index, fits) ==
  LET queue == SyncQueueGetAll(st)
  IN IF queue.t = "arr" /\ fits
       THEN [ls |-> SetItem(st, QueueKey, JSONStringify(JArr(Splice(queue.v, index)))),
             ret |-> JBool(TRUE)]
       ELSE [ls |-> st, ret |-> JBool(FALSE)]
SyncQueueClear(st) == RemoveItem(st, QueueKey)

\* ------------------------------------- SpecStore: calls of the storage API
\* The storage functions are called, in any order and with any of the
\* arguments below, on a localStorage that holds a session entry and, for
\* one user, no notes entry, a damaged one or a well-formed one.
Key_id == <<"i", "d">>
Key_date == <<"d", "a", "t", "e">>
Key_content == <<"c", "o", "n", "t", "e", "n", "t">>
Key_method == <<"m", "e", "t", "h", "o", "d">>
Key_body == <<"b", "o", "d", "y">>
Key_token == <<"t", "o", "k", "e", "n">>

\* user ids, one a prefix of the other
StoreUsers == {<<"a">>, <<"a", "b">>}
\* the content of a note, with the characters JSON escapes
StoreContents == {<<"x", "\"", "\\">>}
StoreNote(c) ==
  JObj(<< <<Key_id, JStr(<<"n", "1">>)>>, <<Key_date, JStr(<<"d", "1">>)>>,
          <<Key_content, JStr(c)>> >>)
NoteLists ==
  {JArr(items) : items \in UNION {[1..n -> {StoreNote(c) : c \in StoreContents}] :
                                    n \in 0..MaxNotes}}

\* entries that no call of notesStorage.save wrote: the empty text, a
\* truncated text, and JSON texts of values that are no arrays
DamagedTexts ==
  {<<>>, <<"[">>, <<"n", "u", "l", "l">>, <<"5">>, <<"{", "}">>}

\* the operations handed to syncQueue.add: the POST of handleSave, and a
\* DELETE that carries a retry count
QueueOperations ==
  {JObj(<< <<Key_method, JStr(<<"P", "O", "S", "T">>)>>,
           <<Key_body, JObj(<< <<Key_date, JStr(<<"d", "1">>)>>,
                               <<Key_content, JStr(<<"x">>)>> >>)>> >>),
   JObj(<< <<Key_method, JStr(<<"D", "E", "L", "E", "T", "E">>)>>,
           <<Key_retries, JNum(<<"3">>)>>, <<Key_body, JNull>> >>)}
\* Date.now()
Clock == {<<"7">>}

SessionText == JSONStringify(JObj(<< <<Key_token, JStr(<<"j", "w", "t">>)>> >>))

\* a session entry and, for user "a", no notes entry, a damaged one or the
\* text of a list of notes
InitialStorages ==
  LET st == SetItem(NoStorage, SessionKey, SessionText)
  IN {st} \cup {SetItem(st, NotesKey(<<"a">>), text) :
                  text \in DamagedTexts \cup {JSONStringify(list) : list \in NoteLists}}

InitStore ==
  /\ session = NoUser
  /\ storedSession = NoUser
  /\ serverStatus = "checking"
  /\ isOfflineMode = FALSE
  /\ notes = {}
  /\ selectedDate = NoDate
  /\ currentNoteId = NoId
  /\ wasOffline = FALSE
  /\ tasks = EmptyBag
  /\ syncQ = <<>>
  /\ cache = [u \in Users |-> {}]
  /\ srvNotes = {}
  /\ srvNextId = 1
  /\ now = 0
  /\ acked = {}
  /\ failedSincePass = FALSE
  /\ cancelBefore = "none"
  /\ failCount = 0
  /\ lastEvent = <<"none", "none">>
  /\ ls \in InitialStorages
  /\ call = NoCall
  /\ handlers = EmptyBag

Called(fn, userId, arg, ret) ==
  /\ call' = [fn |-> fn, user |-> userId, arg |-> arg, ret |-> ret]
  /\ UNCHANGED <<clientVars, srvVars, handlers>>

SaveCall(userId, list, fits) ==
  LET r == NotesStorageSave(ls, userId, list, fits)
  IN ls' = r.ls /\ Called("notesStorage.save", userId, list, r.ret)
LoadCall(userId) ==
  UNCHANGED ls /\ Called("notesStorage.load", userId, JNull, NotesStorageLoad(ls, userId))
ClearCall(userId) ==
  ls' = NotesStorageClear(ls, userId) /\ Called("notesStorage.clear", userId, JNull, JNull)
AddCall(operation, ts, fits) ==
  LET r == SyncQueueAdd(ls, operation, ts, fits)
  IN /\ Len(SyncQueueGetAll(ls).v) < MaxQueue
     /\ ls' = r.ls /\ Called("syncQueue.add", <<>>, operation, r.ret)
GetAllCall ==
  UNCHANGED ls /\ Called("syncQueue.getAll", <<>>, JNull, SyncQueueGetAll(ls))
RemoveCall(index, fits) ==
  LET r == SyncQueueRemove(ls, index, fits)
  IN ls' = r.ls /\ Called("syncQueue.remove", <<>>, JNum(<<index>>), r.ret)
QueueClearCall ==
  ls' = SyncQueueClear(ls) /\ Called("syncQueue.clear", <<>>, JNull, JNull)

NextStore ==
  \/ \E u \in StoreUsers, list \in NoteLists, fits \in BOOLEAN : SaveCall(u, list, fits)
  \/ \E u \in StoreUsers : LoadCall(u)
  \/ \E u \in StoreUsers : ClearCall(u)
  \/ \E op \in QueueOperations, ts \in Clock, fits \in BOOLEAN : AddCall(op, ts, fits)
  \/ GetAllCall
  \/ \E index \in 0..MaxQueue, fits \in BOOLEAN : RemoveCall(index, fits)
  \/ QueueClearCall

SpecStore == InitStore /\ [][NextStore]_vars

\* ----------------------------------- SpecServer: the notes endpoints
\* A handler of the server is an async function: it awaits readNotes(),
\* computes the new list from what it read and awaits writeNotes(list).
\* Handlers of concurrent requests interleave at these awaits.
SrvUsers == {"u1", "u2"}
SrvDates == {"d1", "d2"}
SrvContents == {"x", "y"}

\* PUT /api/notes/:id: 404 without a note of that id and user; else its
\* content is replaced
PutFound(S, u, id) == \E n \in S : n.id = id /\ n.user = u
PutValid(c) == c # NoContent /\ Trim(c) # NoContent
SrvPut(S, u, id, c) ==
  {IF n.id = id /\ n.user = u THEN [n EXCEPT !.content = Trim(c)] ELSE n : n \in S}

NoHandler ==
  [kind |-> "none", user |-> NoUser, date |-> NoDate, content |-> NoContent,
   id |-> NoId, stage |-> "read", out |-> {}]

InitServer ==
  /\ session = NoUser
  /\ storedSession = NoUser
  /\ serverStatus = "checking"
  /\ isOfflineMode = FALSE
  /\ notes = {}
  /\ selectedDate = NoDate
  /\ currentNoteId = NoId
  /\ wasOffline = FALSE
  /\ tasks = EmptyBag
  /\ syncQ = <<>>
  /\ cache = [u \in Users |-> {}]
  /\ srvNotes = {}
  /\ srvNextId = 1
  /\ now = 0
  /\ acked = {}
  /\ failedSincePass = FALSE
  /\ cancelBefore = "none"
  /\ failCount = 0
  /\ lastEvent = <<"none", "none">>
  /\ ls = NoStorage
  /\ call = NoCall
  /\ handlers = EmptyBag

\* a request passed authenticateToken and the handler's validation of the
\* body (400 otherwise) and awaits readNotes()
Receive(kind, u, d, c, id) ==
  /\ BagCardinality(handlers) < MaxHandlers
  /\ handlers' = handlers (+) SetToBag({[NoHandler EXCEPT !.kind = kind, !.user = u,
                                           !.date = d, !.content = c, !.id = id]})
  /\ UNCHANGED <<clientVars, srvVars, ls, call>>

ReceivePost(u, d, c) == PostValid(d, c) /\ Receive("POST", u, d, c, NoId)
ReceivePut(u, id, c) == PutValid(c) /\ Receive("PUT", u, NoDate, c, id)
ReceiveDelete(u, id) == Receive("DELETE", u, NoDate, NoContent, id)

\* what the handler answers 404 to
NotFound(h, S) ==
  \/ h.kind = "PUT" /\ ~PutFound(S, h.user, h.id)
  \/ h.kind = "DELETE" /\ ~DeleteFound(S, h.user, h.id)
\* the list the handler hands to writeNotes
Computed(h, S) ==
  IF h.kind = "POST" THEN SrvPost(S, srvNextId, h.user, h.date, h.content)
  ELSE IF h.kind = "PUT" THEN SrvPut(S, h.user, h.id, h.content)
  ELSE SrvDelete(S, h.user, h.id)

\* readNotes() returns to the handler: the list of the file, or, while the
\* writeFile of another handler is in progress, the empty list that
\* readNotes makes of an empty or half-written file (which it may also
\* reset to '[]'); the handler answers 404 or goes on to writeNotes
ReadDone(h, torn, reset) ==
  /\ h.stage = "read"
  /\ torn => \E w \in BagToSet(handlers (-) SetToBag({h})) : w.stage = "write"
  /\ reset => torn
  /\ LET S == IF torn THEN {} ELSE srvNotes
         uuid == h.kind = "POST" /\ PostCreates(S, h.user, h.date)
     IN /\ uuid => srvNextId <= MaxIds
        /\ srvNextId' = IF uuid THEN srvNextId + 1 ELSE srvNextId
        /\ handlers' =
             IF NotFound(h, S) THEN handlers (-) SetToBag({h})
             ELSE (handlers (-) SetToBag({h}))
                    (+) SetToBag({[h EXCEPT !.stage = "write", !.out = Computed(h, S)]})
  /\ srvNotes' = IF reset THEN {} ELSE srvNotes
  /\ UNCHANGED <<clientVars, ls, call>>

\* writeNotes(list) returns: the file holds the handler's list and the
\* response is sent
\* the ids a response acknowledges: a POST answers 201 for the note it saved,
\* a DELETE answers 200 for the note it removed
AckedAfter(h) ==
  IF h.kind = "POST" THEN acked \cup {IdFor(UserNotes(h.out, h.user), h.date)}
  ELSE IF h.kind = "DELETE" THEN acked \ {h.id}
  ELSE acked
WriteDone(h) ==
  /\ h.stage = "write"
  /\ srvNotes' = h.out
  /\ handlers' = handlers (-) SetToBag({h})
  /\ acked' = AckedAfter(h)
  /\ UNCHANGED <<session, storedSession, serverStatus, isOfflineMode, notes, selectedDate,
                 currentNoteId, wasOffline, tasks, syncQ, cache, now, failedSincePass,
                 cancelBefore, failCount, lastEvent, srvNextId, ls, call>>

NextServer ==
  \/ \E u \in SrvUsers, d \in SrvDates, c \in SrvContents : ReceivePost(u, d, c)
  \/ \E u \in SrvUsers, id \in 1..MaxIds, c \in SrvContents : ReceivePut(u, id, c)
  \/ \E u \in SrvUsers, id \in 1..MaxIds : ReceiveDelete(u, id)
  \/ \E h \in BagToSet(handlers), torn \in BOOLEAN, reset \in BOOLEAN : ReadDone(h, torn, reset)
  \/ \E h \in BagToSet(handlers) : WriteDone(h)

SpecServer == InitServer /\ [][NextServer]_vars

\* ------------------------------------------------ requests in succession
\* Each request is handled to its response before the next one arrives: the
\* handler's readNotes, its change of the list, writeNotes and the response
\* are one step. `call` holds the last request, its response and the request
\* before it.
ReqContents == {"x", "y", Padded, Blanks, NoContent}

NoArg == [date |-> NoDate, content |-> NoContent, id |-> NoId]
NoRequest ==
  [fn |-> "none", user |-> NoUser, arg |-> NoArg,
   ret |-> [status |-> 0, body |-> {}],
   prev |-> [fn |-> "none", user |-> NoUser, arg |-> NoArg]]

InitRequests ==
  /\ session = NoUser
  /\ storedSession = NoUser
  /\ serverStatus = "checking"
  /\ isOfflineMode = FALSE
  /\ notes = {}
  /\ selectedDate = NoDate
  /\ currentNoteId = NoId
  /\ wasOffline = FALSE
  /\ tasks = EmptyBag
  /\ syncQ = <<>>
  /\ cache = [u \in Users |-> {}]
  /\ srvNotes = {}
  /\ srvNextId = 1
  /\ now = 0
  /\ acked = {}
  /\ failedSincePass = FALSE
  /\ cancelBefore = "none"
  /\ failCount = 0
  /\ lastEvent = <<"none", "none">>
  /\ ls = NoStorage
  /\ call = NoRequest
  /\ handlers = EmptyBag

\* the response is sent: res.status(status).json(body); the body of an error
\* is a message and holds no note
Responded(fn, u, arg, status, body) ==
  /\ call' = [fn |-> fn, user |-> u, arg |-> arg,
              ret |-> [status |-> status, body |-> body],
              prev |-> [fn |-> call.fn, user |-> call.user, arg |-> call.arg]]
  /\ UNCHANGED <<clientVars, ls, handlers>>

\* GET /api/notes with the token of u
GetRequest(u) ==
  /\ Responded("GET", u, NoArg, 200, UserNotes(srvNotes, u))
  /\ UNCHANGED srvVars

\* POST /api/notes {date, content} with the token of u
PostRequest(u, d, c) ==
  LET arg == [NoArg EXCEPT !.date = d, !.content = c]
      out == SrvPost(srvNotes, srvNextId, u, d, c)
  IN IF ~PostValid(d, c)
       THEN Responded("POST", u, arg, 400, {}) /\ UNCHANGED srvVars
       ELSE /\ PostCreates(srvNotes, u, d) => srvNextId <= MaxIds
            /\ srvNextId' = IF PostCreates(srvNotes, u, d) THEN srvNextId + 1 ELSE srvNextId
            /\ srvNotes' = out
            /\ Responded("POST", u, arg, 201, UserNotes(out, u))

\* PUT /api/notes/:id {content} with the token of u
PutRequest(u, id, c) ==
  LET arg == [NoArg EXCEPT !.content = c, !.id = id]
      out == SrvPut(srvNotes, u, id, c)
  IN IF ~PutValid(c)
       THEN Responded("PUT", u, arg, 400, {}) /\ UNCHANGED srvVars
     ELSE IF ~PutFound(srvNotes, u, id)
       THEN Responded("PUT", u, arg, 404, {}) /\ UNCHANGED srvVars
     ELSE /\ srvNotes' = out
          /\ UNCHANGED srvNextId
          /\ Responded("PUT", u, arg, 200, UserNotes(out, u))

\* DELETE /api/notes/:id with the token of u
DeleteRequest(u, id) ==
  LET arg == [NoArg EXCEPT !.id = id]
      out == SrvDelete(srvNotes, u, id)
  IN IF ~DeleteFound(srvNotes, u, id)
       THEN Responded("DELETE", u, arg, 404, {}) /\ UNCHANGED srvVars
       ELSE /\ srvNotes' = out
            /\ UNCHANGED srvNextId
            /\ Responded("DELETE", u, arg, 200, UserNotes(out, u))

NextRequests ==
  \/ \E u \in SrvUsers : GetRequest(u)
  \/ \E u \in SrvUsers, d \in SrvDates, c \in ReqContents : PostRequest(u, d, c)
  \/ \E u \in SrvUsers, id \in 1..MaxIds, c \in ReqContents : PutRequest(u, id, c)
  \/ \E u \in SrvUsers, id \in 1..MaxIds : DeleteRequest(u, id)

SpecRequests == InitRequests /\ [][NextRequests]_vars

\* ---------------------------------------------------------------- claims
\* task t ran its continuation in this step (a session change only re-stamps
\* tasks and settles none)
Settled(t) == session' = session /\ CopiesIn(t, tasks') < CopiesIn(t, tasks)
\* task t2 is the result of a continuation run in this step
Arrived(t2) == session' = session /\ CopiesIn(t2, tasks') > CopiesIn(t2, tasks)

HasTemp(S) == \E n \in S : IsTemp(n.id)

\* the local retry count of the operation stamped ts exceeded 5 in some drain
Exhausted(ts, T) ==
  \E t \in BagToSet(T) : \E j \in 1..Len(t.q) :
    t.q[j].ts = ts /\ t.q[j].retries > MaxRetries

\* C1: an operation leaves the persisted queue only once a replay of that
\* operation got a success response or its retry count exceeded 5.
C1_NoLossBeforeAck ==
  [][\A j \in 1..Len(syncQ) :
       syncQ[j].ts \notin TsOf(syncQ') =>
         syncQ[j].ts \in acked' \/ Exhausted(syncQ[j].ts, tasks')]_vars

\* C2: a drain issues its requests in enqueue order: the timestamps of the
\* requests a drain has sent so far are increasing.
C2_EnqueueOrder ==
  \A t \in TaskSet : \A a, b \in 1..Len(t.sent) : a < b => t.sent[a] < t.sent[b]

\* C3 (SpecRetry): after its 5th failed replay the DELETE is out of the
\* persisted queue, and no further replay of it is sent.
C3_DroppedAfterFive ==
  /\ failCount >= MaxRetries => syncQ = <<>>
  /\ failCount <= MaxRetries

\* C4: when a drain returns, every operation of its snapshot that is still in
\* the persisted queue is stored with the retry count the drain computed for
\* it (one more than before for a failed replay).
C4_RetriesPersisted ==
  [][\A t2 \in BagToSet(tasks') :
       t2.pc = "fetch" /\ Arrived(t2) =>
         \A l \in 1..Len(t2.q) : \A p \in 1..Len(syncQ') :
           syncQ'[p].ts = t2.q[l].ts => syncQ'[p].retries = t2.q[l].retries]_vars

\* C5: at most one reconciliation pass is in progress.
C5_OnePass == NumPasses(tasks) <= 1

\* C6: a pass is started only when a health probe has failed since the
\* previous pass was started.
C6_EdgeTriggered ==
  [][NumPasses(tasks') > NumPasses(tasks) => failedSincePass]_vars

Synced == serverStatus = "online" /\ ~wasOffline /\ NumPasses(tasks) = 0

\* C8 as claimed: Synced implies an empty persisted queue.
C8_SyncedQueueEmpty == Synced => syncQ = <<>>

\* C8 as amended: when a drain returns in which every replay got a success
\* response, no operation of the drain's snapshot is left in the persisted
\* queue (what is left was enqueued after the drain started).
C8_DrainedIfAllOk ==
  [][\A t2 \in BagToSet(tasks') :
       t2.pc = "fetch" /\ Arrived(t2) /\ t2.nfail = 0 =>
         TsOf(syncQ') \cap TsOf(t2.q) = {}]_vars

\* a drain of a non-empty snapshot has returned without a failed replay
C8_Witness ==
  \E t \in TaskSet : t.pc = "fetch" /\ t.nfail = 0 /\ Len(t.q) > 0 /\ Len(syncQ) = 0

\* C9: the settling of a cancelled health check does not turn the
\* connectivity state to offline, does not switch offline mode on and does not
\* arm the was-offline flag.
C9_CancelNotOffline ==
  [][\A t \in TaskSet :
       t.pc = "health" /\ t.aborted /\ Settled(t) =>
         /\ serverStatus' = "offline" => serverStatus = "offline"
         /\ isOfflineMode' => isOfflineMode
         /\ wasOffline' => wasOffline]_vars

\* a cancelled health check has settled, no check has settled since (the
\* state is still the "checking" of a check's start) and the app is neither
\* in offline mode nor armed for a pass
C9_Witness ==
  /\ cancelBefore # "none"
  /\ serverStatus = "checking" /\ ~isOfflineMode /\ ~wasOffline

\* C10 as claimed: after a cancelled check settles, the connectivity state is
\* what it was before that check started.
C10_StateBeforeCheck ==
  [][\A t \in TaskSet :
       t.pc = "health" /\ t.aborted /\ Settled(t) => serverStatus' = t.before]_vars

\* C10 as amended: the settling of a cancelled check leaves the connectivity
\* state as it was immediately before the cancellation settled.
C10_CancelKeepsStatus ==
  [][\A t \in TaskSet :
       t.pc = "health" /\ t.aborted /\ Settled(t) => serverStatus' = serverStatus]_vars

\* a check that started from "online" has settled cancelled and the
\* connectivity state is "checking"
C10_Witness == cancelBefore = "online" /\ serverStatus = "checking"

\* a checkHealth run that has neither settled nor been cancelled by the
\* cleanup of its effect
Unsettled(t) == t.pc \in {"health", "drain", "fetch"} /\ ~t.stale
NumChecks(T) ==
  BagCardinality([t \in {x \in BagToSet(T) : Unsettled(x)} |-> CopiesIn(t, T)])

\* C11: health checks are serialized: at most one check that was not
\* cancelled is unsettled, the pass it started included.
C11_Serialized == NumChecks(tasks) <= 1

\* the request of a handler got no success response
Failed(r) == r \in {"4xx", "reject", "err"}
LastOp(q) == q[Len(q)]

C13_RejectedNoEffect ==
  [][lastEvent'[2] = "4xx" => cache' = cache /\ syncQ' = syncQ]_vars

C15_LogoutClearsQueue ==
  [][session # NoUser /\ session' = NoUser => syncQ' = <<>>]_vars

\* ------------------------------------------------- claims on SpecStore
IsTrue(val) == val.t = "bool" /\ val.v = <<"t">>
SameValue(a, b) == a.t = b.t /\ a.v = b.v
HasMember(val, key) == val.t = "obj" /\ \E j \in 1..Len(val.v) : val.v[j][1] = key
MemberOf(val, key) == val.v[CHOOSE j \in 1..Len(val.v) : val.v[j][1] = key][2]
\* an array of objects that have an id, a date and a content
IsNoteList(val) ==
  /\ val.t = "arr"
  /\ \A j \in 1..Len(val.v) :
       HasMember(val.v[j], Key_id) /\ HasMember(val.v[j], Key_date)
         /\ HasMember(val.v[j], Key_content)

\* C16 (SpecStore): load(u) called right after a save(u, N) that returned
\* true returns N.
C16_RoundTrip ==
  [][(/\ call.fn = "notesStorage.save" /\ IsTrue(call.ret)
      /\ call'.fn = "notesStorage.load" /\ call'.user = call.user) =>
       SameValue(call'.ret, call.arg)]_vars

\* load has returned a list of two notes whose contents hold a quote and a
\* backslash, for the user who had no entry: the list a save has stored
C16_Witness ==
  /\ call.fn = "notesStorage.load" /\ call.user = <<"a", "b">>
  /\ IsNoteList(call.ret) /\ Len(call.ret.v) = 2
  /\ MemberOf(call.ret.v[2], Key_content) = JStr(<<"x", "\"", "\\">>)
  /\ ls[NotesKey(call.user)] = JSONStringify(call.ret)

\* C17 (SpecStore): save(u1, N) and clear(u1) leave what load(u2) returns
\* unchanged for every other user u2, and leave the session entry and the
\* sync-queue entry unchanged.
C17_Isolation ==
  [][call'.fn \in {"notesStorage.save", "notesStorage.clear"} =>
       /\ \A u2 \in StoreUsers \ {call'.user} :
            SameValue(NotesStorageLoad(ls', u2), NotesStorageLoad(ls, u2))
       /\ GetItem(ls', SessionKey) = GetItem(ls, SessionKey)
       /\ GetItem(ls', QueueKey) = GetItem(ls, QueueKey)]_vars

\* a save for one user has stored its list while the other user, the session
\* and the queue have entries of their own
C17_Witness ==
  /\ call.fn = "notesStorage.save" /\ IsTrue(call.ret)
  /\ \E u2 \in StoreUsers \ {call.user} :
       /\ Truthy(GetItem(ls, NotesKey(u2)))
       /\ ~SameValue(NotesStorageLoad(ls, u2), NotesStorageLoad(ls, call.user))
  /\ Truthy(GetItem(ls, SessionKey))
  /\ Len(SyncQueueGetAll(ls).v) > 0

\* C18 (SpecStore): whatever the user's entry holds, load returns the empty
\* list unless the entry holds a well-formed note list.
C18_LoadDegrades == call.fn = "notesStorage.load" => IsNoteList(call.ret)

\* the queue as getAll returns it ends with the operation, stamped, with
\* retry count 0, after the operations it held before
Appended(before, after, operation) ==
  /\ after.t = "arr" /\ before.t = "arr"
  /\ Len(after.v) = Len(before.v) + 1
  /\ SubSeq(after.v, 1, Len(before.v)) = before.v
  /\ LET added == after.v[Len(after.v)]
     IN /\ HasMember(added, Key_timestamp)
        /\ HasMember(added, Key_retries)
        /\ MemberOf(added, Key_retries) = JNum(<<"0">>)
        /\ \A j \in 1..Len(operation.v) :
             operation.v[j][1] # Key_retries =>
               SameValue(MemberOf(added, operation.v[j][1]), operation.v[j][2])

\* C19 as claimed (SpecStore): after add(operation) returns, getAll returns
\* the former queue followed by the operation with retry count 0.
C19_EnqueueAppends ==
  [][call'.fn = "syncQueue.add" =>
       Appended(SyncQueueGetAll(ls), SyncQueueGetAll(ls'), call'.arg)]_vars

\* C19 as amended: when add(operation) returns true, getAll returns the
\* former queue followed by the operation with retry count 0; when it returns
\* false (the write to localStorage threw), localStorage is unchanged.
C19_EnqueueAppendsIfStored ==
  [][call'.fn = "syncQueue.add" =>
       IF IsTrue(call'.ret)
         THEN Appended(SyncQueueGetAll(ls), SyncQueueGetAll(ls'), call'.arg)
         ELSE ls' = ls]_vars

\* add has stored, behind a first operation, an operation that came with a
\* retry count of 3
C19_Witness ==
  /\ call.fn = "syncQueue.add" /\ IsTrue(call.ret)
  /\ HasMember(call.arg, Key_retries) /\ MemberOf(call.arg, Key_retries) = JNum(<<"3">>)
  /\ Len(SyncQueueGetAll(ls).v) = 2
  /\ MemberOf(SyncQueueGetAll(ls).v[2], Key_retries) = JNum(<<"0">>)

\* ------------------------------------------------ claims on SpecServer
\* C20 (SpecServer): the note store holds at most one note for each
\* (userId, date) pair.
C20_OnePerUserDate ==
  \A n1, n2 \in srvNotes : n1.user = n2.user /\ n1.date = n2.date => n1 = n2

\* a POST for a user and date that have a note in the store has computed its
\* list: the note with the new content in place of the stored one, and no
\* second note
C20_Witness ==
  \E h \in BagToSet(handlers) : \E n \in srvNotes :
    /\ h.kind = "POST" /\ h.stage = "write"
    /\ n.user = h.user /\ n.date = h.date /\ n.content # h.content
    /\ [n EXCEPT !.content = h.content] \in h.out
    /\ Cardinality(h.out) = Cardinality(srvNotes)
    /\ Cardinality(srvNotes) = 2

\* --------------------------------------------- claims on SpecRequests
\* the request `call` records
Req(r) == [fn |-> r.fn, user |-> r.user, arg |-> r.arg]

\* C21 (SpecRequests): upsert idempotence. When a POST /api/notes answered
\* 201 and the next request is the same POST (same user, date and content),
\* the second one leaves the server's notes (ids, owners, dates, contents)
\* as the first one left them.
C21_UpsertIdempotent ==
  [][(/\ call.fn = "POST" /\ call.ret.status = 201
      /\ call'.fn = "POST" /\ Req(call') = Req(call))
     => /\ srvNotes' = srvNotes
        /\ call'.ret = call.ret]_vars

\* the same POST was answered twice in succession, with content the server
\* trims, and the store holds its one note
C21_Witness ==
  /\ call.fn = "POST" /\ call.ret.status = 201
  /\ call.prev = Req(call)
  /\ call.arg.content = Padded
  /\ \E n \in srvNotes : n.user = call.user /\ n.date = call.arg.date /\ n.content = "x"
  /\ Cardinality(UserNotes(srvNotes, call.user)) = 1

C22_EmptyDrainNoop ==
  [][\A t \in TaskSet : \A t2 \in BagToSet(tasks') :
       (/\ t.pc = "health" /\ Settled(t)
        /\ InPass(t2) /\ Arrived(t2)
        /\ Len(syncQ) = 0)
       => /\ t2.pc = "fetch"
          /\ t2.sent = <<>> /\ t2.q = <<>>
          /\ syncQ' = syncQ
          /\ cache' = cache
          /\ notes' = notes
          /\ srvNotes' = srvNotes /\ srvNextId' = srvNextId
          /\ wasOffline' = wasOffline
          /\ serverStatus' = "online" /\ ~isOfflineMode']_vars

\* a pass was started on an empty queue: its drain has returned without a
\* request and the user's cache still holds a note
C22_Witness ==
  \E t \in TaskSet :
    /\ t.pc = "fetch" /\ t.q = <<>> /\ t.sent = <<>> /\ ~t.stale
    /\ syncQ = <<>> /\ wasOffline
    /\ t.user = session /\ cache[session] # {}
    /\ serverStatus = "online" /\ ~isOfflineMode

\* C28: after logout no step writes the notes cache or makes the in-memory
\* note list non-empty: while nobody is logged in, every step, the settling
\* of a request that was in flight at logout included, leaves the caches as
\* they are and the note list empty.
C28_NothingAfterLogout ==
  [][(session = NoUser /\ session' = NoUser) => (cache' = cache /\ notes' = {})]_vars

\* the note list S shows the local mutation of the queued operation op: the
\* saved content under its date, or no note of the deleted id
Reflects(S, op) ==
  IF op.method = "POST"
    THEN \E n \in S : n.date = op.date /\ n.content = op.content
    ELSE \A n \in S : n.id # op.nid

\* C29: no notes fetch takes a pending operation's local mutation out of the
\* cache. When the notes fetch of loadNotes or of a pass settles while the
\* queue holds an operation, and the cache of the logged-in user showed the
\* mutation of the operation enqueued last, the cache still shows it.
C29_PendingKeptInCache ==
  [][\A t \in TaskSet :
       (/\ t.pc \in {"fetch", "load"} /\ Settled(t) /\ t.user = session
        /\ syncQ # <<>> /\ syncQ' = syncQ
        /\ Reflects(cache[t.user], LastOp(syncQ)))
       => Reflects(cache'[t.user], LastOp(syncQ))]_vars

\* ------------------------------------------------ claims on SpecOffline
\* C24 (SpecOffline): when the drain of a pass returns and every operation of
\* its snapshot was replayed with success, the server holds, for the date,
\* the content of the user's last offline save, and no note if the user's
\* last offline action was a delete.
C24_ReplayedInUserOrder ==
  [][\A t2 \in BagToSet(tasks') :
       (t2.pc = "fetch" /\ Arrived(t2) /\ t2.nfail = 0 /\ Len(t2.q) > 0)
       => LET S == NoteFor(UserNotes(srvNotes', t2.user), selectedDate)
          IN /\ lastEvent[1] = "save" => \E n \in S : n.content = lastEvent[2]
             /\ lastEvent[1] = "delete" => S = {}]_vars

\* C25 (SpecOffline): a note created offline (temporary id) and deleted while
\* still offline is, when the next pass completes, neither on the server nor
\* in the cache.
C25_OfflineCreateDelete ==
  [][\A t \in TaskSet :
       (t.pc = "fetch" /\ Settled(t) /\ lastEvent = <<"delete", "temp">>)
       => /\ NoteFor(UserNotes(srvNotes', t.user), selectedDate) = {}
          /\ NoteFor(cache'[t.user], selectedDate) = {}]_vars

\* ------------------------------------------------ claims on SpecShared
\* C26 (SpecShared): a pending operation is replayed only with the token of
\* the user in whose session it was enqueued. Every operation of the queue
\* was enqueued in the session of u1, so every drain that has a request in
\* flight sends it with the token of u1.
C26_ReplayedByOwner ==
  \A t \in TaskSet : t.pc = "drain" => t.user = "u1"

\* ------------------------------------------------ claims on SpecLive
\* no request of the step just taken failed or was refused
Reachable == ~Failed(lastEvent[2])

\* C27 (SpecLive): liveness of the queue. If from some point on every
\* request is answered with success, then every operation that is in the
\* persisted queue is eventually out of it, whether it was there when the
\* page was loaded or was enqueued by a save whose request failed.
C27_QueueDrains ==
  <>[]Reachable =>
    \A ts \in 1..MaxOps : (ts \in TsOf(syncQ)) ~> (ts \notin TsOf(syncQ))

\* C30 (SpecServer): an acknowledged note is durable under concurrent
\* requests. Every note a POST was answered 201 for is in the note store, and
\* so in the answer to its owner's next GET, until a DELETE for it is
\* answered with success.
C30_AckedDurable ==
  \A id \in acked : \E n \in srvNotes : n.id = id

====
